---- MODULE Spec2Model ----
(***************************************************************************)
(* BlobStorageHelper (pyazure/storage/blob.py): the flat blob namespace of *)
(* one container, delete_directory over it, and generate_blob_sas_url.     *)
(* A blob name is a sequence of characters; the container is the set of    *)
(* names it holds.                                                         *)
(***************************************************************************)
EXTENDS Integers, Sequences, FiniteSets

VARIABLES
    store,          \* names of the blobs in the container
    directory_path, \* argument of the outermost delete_directory call
    failure,        \* per blob name: how container_client.delete_blob behaves
    pc,             \* position of the running delete_directory call
    stack,          \* directory_path of every active delete_directory frame
    pending,        \* rest of the listing the for loop of line 370 iterates
    markerTarget,   \* the marker candidate line 400 selected
    callNo,         \* number of delete_directory calls the caller has made
    store0,         \* history: the container when the current call started
    deleteArgs,     \* history: names passed to delete_blob in the current call
    failed,         \* history: names whose delete_blob raised in the current call
    passCounts,     \* history: length of the listing of each pass of the call
    unseen,         \* history: names written by another client and in no
                    \*   listing the routine has iterated since
    writes,         \* number of writes by the other client
    created_with,   \* "connection_string" or "sas_token" (lines 34-46)
    has_account_key,\* account name and key known to the container client
    sasResult       \* the last generate_blob_sas_url call and what it returned

vars == <<store, directory_path, failure, pc, stack, pending, markerTarget,
          callNo, store0, deleteArgs, failed, passCounts, unseen, writes,
          created_with, has_account_key, sasResult>>

sasVars == <<created_with, has_account_key, sasResult>>

----------------------------------------------------------------------------
(* Bounds of the model *)

MaxKeys == 4

MaxCalls == 2

MaxFail == 2

MaxWrites == 2

RecursionLimit == 4

----------------------------------------------------------------------------
(* Blob names and directory paths *)

Keys ==
    { <<"a">>, <<"a", "/">>, <<"a", "b">>, <<"a", "/", "b">>,
      <<"a", "/", "b", "c">>, <<"a", "/", "c">>,
      <<"a", "/", "c", "/", "d">>, <<"a", "/", "/", "b">> }

Paths == { <<"a">>, <<"a", "/">>, <<"a", "/", "/">>, <<"a", "/", "c">> }

NoKey == <<>>

Ord(c) ==
    CASE c = "/" -> 47
      [] c = "a" -> 97
      [] c = "b" -> 98
      [] c = "c" -> 99
      [] c = "d" -> 100

SetMax(S) == IF S = {} THEN 0 ELSE CHOOSE x \in S : \A y \in S : y <= x

Range(s) == { s[i] : i \in DOMAIN s }

----------------------------------------------------------------------------
(* String helpers of Python used by the code *)

EndsWithSlash(s) == Len(s) > 0 /\ s[Len(s)] = "/"

StartsWith(s, prefix) ==
    Len(prefix) <= Len(s) /\ SubSeq(s, 1, Len(prefix)) = prefix

RECURSIVE RStrip(_)
RStrip(s) ==
    IF EndsWithSlash(s) THEN RStrip(SubSeq(s, 1, Len(s) - 1)) ELSE s

RECURSIVE Less(_, _)
Less(s, t) ==
    IF s = <<>> THEN t # <<>>
    ELSE IF t = <<>> THEN FALSE
    ELSE IF Head(s) = Head(t) THEN Less(Tail(s), Tail(t))
    ELSE Ord(Head(s)) < Ord(Head(t))

RECURSIVE SortedSeq(_)
SortedSeq(S) ==
    IF S = {} THEN <<>>
    ELSE LET m == CHOOSE x \in S : \A y \in S \ {x} : Less(x, y)
         IN  <<m>> \o SortedSeq(S \ {m})

----------------------------------------------------------------------------
(* The container client.  list_blobs returns the names that start with the *)
(* prefix in character order; for a container of this size the whole       *)
(* listing arrives with the first page, so an iteration walks a snapshot.  *)

ListBlobs(s, prefix) == SortedSeq({ k \in s : StartsWith(k, prefix) })

DeleteBlob_Prefix(s, k) == { x \in s : ~StartsWith(x, k) }

DeleteBlob(s, k) == s \ {k}

----------------------------------------------------------------------------
(* delete_directory: path forms *)

DirPrefix(p) == IF EndsWithSlash(p) THEN p ELSE Append(p, "/")

DirNameNoSlash(p) == IF EndsWithSlash(p) THEN RStrip(p) ELSE p

IsNonEmptyDirectory_AtLeastOne(s, name) == Len(ListBlobs(s, name)) >= 1

IsNonEmptyDirectory(s, name) == Len(ListBlobs(s, name)) > 1

IsMarker_StartsWith(name, bare) == StartsWith(name, bare)

IsMarker_Any(name, bare) == TRUE

IsMarker(name, bare) == RStrip(name) = bare

MarkerCandidate(s, bare) ==
    LET cands == ListBlobs(s, bare)
        hits  == { i \in DOMAIN cands : IsMarker(cands[i], bare) }
    IN  IF hits = {} THEN NoKey
        ELSE cands[CHOOSE i \in hits : \A j \in hits : i <= j]

Top == stack[Len(stack)]

----------------------------------------------------------------------------
(* generate_blob_sas_url *)

None == <<>>

NotCalled == [called |-> FALSE, blob_path |-> NoKey, ret |-> None]

SasUrl(mode, hasKey, exists, blob_path) ==
    IF mode = "connection_string"
    THEN IF ~exists THEN None
         ELSE IF ~hasKey THEN None
         ELSE <<"https://account.blob.core.windows.net/container/", blob_path,
                "?", "account_key_sas">>
    ELSE IF mode = "sas_token"
    THEN <<"container_url/", blob_path, "?", "container_sas">>
    ELSE None

----------------------------------------------------------------------------
(* Initial states *)

Stores == { s \in SUBSET Keys : Cardinality(s) <= MaxKeys }

NoFailure == [k \in Keys |-> "ok"]

Failures(s) ==
    { f \in [Keys -> {"ok", "once", "always"}] :
        /\ \A k \in Keys \ s : f[k] = "ok"
        /\ Cardinality({ k \in s : f[k] # "ok" }) <= MaxFail }

InitCall ==
    /\ store \in Stores
    /\ directory_path \in Paths
    /\ pc = "idle"
    /\ stack = <<>>
    /\ pending = <<>>
    /\ markerTarget = NoKey
    /\ callNo = 0
    /\ store0 = store
    /\ deleteArgs = {}
    /\ failed = {}
    /\ passCounts = <<>>
    /\ unseen = {}
    /\ writes = 0

InitHelper ==
    /\ created_with = "connection_string"
    /\ has_account_key = TRUE
    /\ sasResult = NotCalled

Init == InitCall /\ InitHelper /\ failure = NoFailure

InitFail == InitCall /\ InitHelper /\ failure \in Failures(store)

InitSas ==
    /\ InitCall
    /\ failure = NoFailure
    /\ \E sas_url \in BOOLEAN, conn_str \in BOOLEAN, container \in BOOLEAN :
          /\ sas_url \/ (conn_str /\ container)
          /\ created_with = IF sas_url THEN "sas_token" ELSE "connection_string"
    /\ has_account_key \in BOOLEAN
    /\ sasResult = NotCalled

----------------------------------------------------------------------------
(* delete_directory, one action per round trip to the store *)

Call ==
    /\ pc \in {"idle", "done"}
    /\ callNo < MaxCalls
    /\ callNo' = callNo + 1
    /\ stack' = <<directory_path>>
    /\ pc' = "list"
    /\ store0' = store
    /\ deleteArgs' = {}
    /\ failed' = {}
    /\ passCounts' = <<>>
    /\ unseen' = {}
    /\ pending' = <<>>
    /\ markerTarget' = NoKey
    /\ UNCHANGED <<store, directory_path, failure, writes>>
    /\ UNCHANGED sasVars

ListDirectory ==
    /\ pc = "list"
    /\ pending' = ListBlobs(store, DirPrefix(Top))
    /\ passCounts' = Append(passCounts, Len(pending'))
    /\ unseen' = unseen \ Range(pending')
    /\ pc' = "loop"
    /\ UNCHANGED <<store, directory_path, failure, stack, markerTarget, callNo,
                   store0, deleteArgs, failed, writes>>
    /\ UNCHANGED sasVars

CheckEntry ==
    /\ pc = "loop"
    /\ pending # <<>>
    /\ IF IsNonEmptyDirectory(store, Head(pending))
       THEN /\ pending' = Tail(pending)
            /\ pc' = "loop"
       ELSE /\ pending' = pending
            /\ pc' = "delete"
    /\ UNCHANGED <<store, directory_path, failure, stack, markerTarget, callNo,
                   store0, deleteArgs, failed, passCounts, unseen, writes>>
    /\ UNCHANGED sasVars

TryDelete(k) ==
    /\ deleteArgs' = deleteArgs \cup {k}
    /\ IF failure[k] = "ok"
       THEN /\ store' = DeleteBlob(store, k)
            /\ failure' = failure
            /\ failed' = failed
       ELSE /\ store' = store
            /\ failed' = failed \cup {k}
            /\ failure' = IF failure[k] = "once"
                          THEN [failure EXCEPT ![k] = "ok"]
                          ELSE failure

DeleteEntry ==
    /\ pc = "delete"
    /\ TryDelete(Head(pending))
    /\ pending' = Tail(pending)
    /\ pc' = "loop"
    /\ UNCHANGED <<directory_path, stack, markerTarget, callNo, store0,
                   passCounts, unseen, writes>>
    /\ UNCHANGED sasVars

Recheck ==
    /\ pc = "loop"
    /\ pending = <<>>
    /\ IF Len(ListBlobs(store, DirPrefix(Top))) > 1
       THEN IF Len(stack) < RecursionLimit
            THEN /\ stack' = Append(stack, DirPrefix(Top))
                 /\ pc' = "list"
            ELSE /\ stack' = <<>>
                 /\ pc' = "raised"
       ELSE /\ stack' = stack
            /\ pc' = "marker"
    /\ UNCHANGED <<store, directory_path, failure, pending, markerTarget,
                   callNo, store0, deleteArgs, failed, passCounts, unseen, writes>>
    /\ UNCHANGED sasVars

ReturnFromFrame ==
    IF Len(stack) > 1
    THEN /\ stack' = SubSeq(stack, 1, Len(stack) - 1)
         /\ pc' = "marker"
    ELSE /\ stack' = <<>>
         /\ pc' = "done"

MarkerList ==
    /\ pc = "marker"
    /\ LET m == MarkerCandidate(store, DirNameNoSlash(Top))
       IN  IF m = NoKey
           THEN /\ ReturnFromFrame
                /\ UNCHANGED <<markerTarget, unseen>>
           ELSE /\ markerTarget' = m
                /\ unseen' = unseen \ {m}
                /\ pc' = "markerdelete"
                /\ stack' = stack
    /\ UNCHANGED <<store, directory_path, failure, pending, callNo, store0,
                   deleteArgs, failed, passCounts, writes>>
    /\ UNCHANGED sasVars

MarkerDelete ==
    /\ pc = "markerdelete"
    /\ TryDelete(markerTarget)
    /\ markerTarget' = NoKey
    /\ ReturnFromFrame
    /\ UNCHANGED <<directory_path, pending, callNo, store0, passCounts,
                   unseen, writes>>
    /\ UNCHANGED sasVars

Running == pc \in {"list", "loop", "delete", "marker", "markerdelete"}

(* another client of the same container uploads a blob *)
Write ==
    /\ Running
    /\ writes < MaxWrites
    /\ \E k \in Keys \ store :
          /\ store' = store \cup {k}
          /\ unseen' = unseen \cup {k}
    /\ writes' = writes + 1
    /\ UNCHANGED <<directory_path, failure, pc, stack, pending, markerTarget,
                   callNo, store0, deleteArgs, failed, passCounts>>
    /\ UNCHANGED sasVars

GenerateBlobSasUrl ==
    /\ pc = "idle"
    /\ \E blob_path \in Keys :
          sasResult' = [called |-> TRUE, blob_path |-> blob_path,
                        ret |-> SasUrl(created_with, has_account_key,
                                       blob_path \in store, blob_path)]
    /\ UNCHANGED <<store, directory_path, failure, pc, stack, pending,
                   markerTarget, callNo, store0, deleteArgs, failed, passCounts,
                   unseen, writes, created_with, has_account_key>>

----------------------------------------------------------------------------
(* Specifications *)

Next ==
    \/ Call
    \/ ListDirectory
    \/ CheckEntry
    \/ DeleteEntry
    \/ Recheck
    \/ MarkerList
    \/ MarkerDelete

NextWriter == Next \/ Write

NextSas == GenerateBlobSasUrl

\* one client, every delete_blob succeeds
Spec == Init /\ [][Next]_vars

\* one client, delete_blob of some names fails once or on every attempt
SpecFail == InitFail /\ [][Next]_vars

\* every delete_blob succeeds, another client writes during the call
SpecWriter == Init /\ [][NextWriter]_vars

\* generate_blob_sas_url on a helper built either way
SpecSas == InitSas /\ [][NextSas]_vars

----------------------------------------------------------------------------
(* Vocabulary of the properties *)

UnderPrefix(s, p) == { k \in s : StartsWith(k, DirPrefix(p)) }

\* names delete_directory(p) may touch: under the prefix, or the bare key
\* once trailing '/' are stripped
Inside(p) ==
    { k \in Keys : StartsWith(k, DirPrefix(p)) \/ RStrip(k) = DirNameNoSlash(p) }

MarkerLike(s, p) == { k \in s : RStrip(k) = DirNameNoSlash(p) }

\* length of the longest chain of names of S, each a string prefix of the next:
\* the names of S that are prefixes of one name k form a chain ending in k
LongestChain(S) ==
    SetMax({ Cardinality({ j \in S : StartsWith(k, j) }) : k \in S })

\* passes whose listing held at least one name
NonEmptyPasses == Cardinality({ i \in DOMAIN passCounts : passCounts[i] > 0 })

Finished == pc \in {"done", "raised"}

----------------------------------------------------------------------------
(* Properties *)

\* C1: with no failing delete and no other writer, after delete_directory(p)
\* returns no name that starts with p's prefix is left in the container.
C1_PrefixEmptyAfterDelete ==
    pc = "done" => UnderPrefix(store, directory_path) = {}

\* C2: on the container {a, a/b, a/c, a/c/d}, delete_directory("a") leaves the
\* container empty after at most two passes.
C2_NestedInstanceEmptied ==
    ( /\ pc = "done"
      /\ directory_path = <<"a">>
      /\ store0 = { <<"a">>, <<"a", "/", "b">>, <<"a", "/", "c">>,
                    <<"a", "/", "c", "/", "d">> } )
    => (store = {} /\ Len(passCounts) <= 2)

\* C3: whatever deletes fail, once or on every attempt, no error reaches the
\* caller of delete_directory.
C3_AlwaysReturnsNormally == pc # "raised"

\* C4: when the delete of one listed name fails, every other name under the
\* prefix that no other name starts with is gone afterwards and the routine
\* completes without raising.
C4_FailureIsolation ==
    (Finished /\ Cardinality(failed) = 1)
    => /\ pc = "done"
       /\ \A k \in UnderPrefix(store0, directory_path) \ failed :
             ~IsNonEmptyDirectory(store0, k) => k \notin store

\* the part of C4 about the other names alone: a failed delete leaves the
\* deletion of the other leaf names of the pass in place
FailureIsolationOfLeaves ==
    (Finished /\ Cardinality(failed) = 1)
    => \A k \in UnderPrefix(store0, directory_path) \ failed :
          ~IsNonEmptyDirectory(store0, k) => k \notin store

\* C5: delete_directory(d) passes to delete_blob only names that start with
\* d's prefix or equal d's bare key once trailing '/' are stripped, and every
\* name outside those is in the container exactly as before the call.
C5_FrameOutsideDirectory ==
    /\ deleteArgs \subseteq Inside(directory_path)
    /\ store \ Inside(directory_path) = store0 \ Inside(directory_path)

C5_Witness ==
    /\ pc = "done"
    /\ directory_path = <<"a">>
    /\ <<"a", "b">> \in store
    /\ <<"a">> \in deleteArgs
    /\ <<"a">> \notin store
    /\ Len(passCounts) >= 2

\* C6 as stated: a second delete_directory(p) on a container in which no name
\* is under p's prefix issues no delete call, does not recurse, raises nothing
\* and leaves the container as it was.
C6_SecondCallDoesNothing ==
    (callNo = 2 /\ UnderPrefix(store0, directory_path) = {})
    => /\ deleteArgs = {}
       /\ Len(passCounts) <= 1
       /\ pc # "raised"
       /\ store = store0

\* C6 amended: the same, when also no name of the container equals p's bare
\* key once trailing '/' are stripped.
C6_SecondCallDoesNothingWithoutMarker ==
    ( /\ callNo = 2
      /\ UnderPrefix(store0, directory_path) = {}
      /\ MarkerLike(store0, directory_path) = {} )
    => /\ deleteArgs = {}
       /\ Len(passCounts) <= 1
       /\ pc # "raised"
       /\ store = store0

C6_Witness ==
    /\ callNo = 2
    /\ pc = "done"
    /\ UnderPrefix(store0, directory_path) = {}
    /\ MarkerLike(store0, directory_path) = {}
    /\ <<"a", "b">> \in store0
    /\ directory_path = <<"a">>

\* C7: in every frame the listing prefix is the path with exactly one trailing
\* '/' and the marker key is the path with all trailing '/' stripped.
C7_PathNormalised ==
    \A i \in DOMAIN stack :
        /\ DirPrefix(stack[i]) = Append(RStrip(directory_path), "/")
        /\ DirNameNoSlash(stack[i]) = RStrip(directory_path)

\* C8: generate_blob_sas_url returns a URL only for a blob that exists.
C8_SasUrlOnlyForExistingBlob ==
    (sasResult.called /\ sasResult.ret # None)
    => sasResult.blob_path \in store

\* C9: with no failing delete and no other writer, every pass followed by a
\* recursive call has strictly fewer names under the prefix after it than
\* before it, the recursion never runs away, the passes over a non-empty
\* listing number at most the length of the longest prefix chain among the
\* names under the prefix, and every step of a running call lowers a variant
\* that stays non-negative, so every call that starts returns.
PassesBounded ==
    /\ pc # "raised"
    /\ \A i \in 1 .. (Len(passCounts) - 1) : passCounts[i + 1] < passCounts[i]
    /\ NonEmptyPasses <= LongestChain(UnderPrefix(store0, directory_path))

\* a variant of the running call: the frames still allowed by the chain bound,
\* then the steps left in the pass, then the frames still to return from
PassSteps == 2 * Cardinality(Keys) + 3

DepthAllowed ==
    LET L == LongestChain(UnderPrefix(store0, directory_path))
    IN  IF L = 0 THEN 1 ELSE L

Variant ==
    CASE pc = "list" ->
            2 * RecursionLimit + 2
            + (DepthAllowed - Len(stack)) * (PassSteps + 1) + PassSteps
      [] pc = "loop" ->
            2 * RecursionLimit + 2
            + (DepthAllowed - Len(stack)) * (PassSteps + 1) + 2 * Len(pending) + 1
      [] pc = "delete" ->
            2 * RecursionLimit + 2
            + (DepthAllowed - Len(stack)) * (PassSteps + 1) + 2 * Len(pending)
      [] pc = "marker" -> 2 * Len(stack) + 1
      [] pc = "markerdelete" -> 2 * Len(stack)
      [] OTHER -> 0

C9_RecursionTerminates ==
    /\ []PassesBounded
    /\ [][Running => (Variant' < Variant /\ Variant' >= 0)]_vars

C9_Witness ==
    /\ pc = "done"
    /\ Len(passCounts) = 2
    /\ LongestChain(UnderPrefix(store0, directory_path)) = 2

\* C10: the routine only ever deletes names taken from its own listings, so a
\* name another client wrote after the listing in use is still in the
\* container, also when the routine has returned.
C10_WrittenAfterListingSurvives == unseen \subseteq store

C10_Witness ==
    /\ pc = "done"
    /\ \E k \in unseen : StartsWith(k, DirPrefix(directory_path)) /\ k \in store

====
